---- MODULE Spec2Model ----
(***************************************************************************)
(* Seat booking service: the seat store (store/persist.go), the            *)
(* idempotency store (store/idempotency.go) and the HTTP handlers          *)
(* (handlers/handler.go), as a state machine of concurrent request         *)
(* goroutines.                                                             *)
(***************************************************************************)
EXTENDS Integers, Sequences, FiniteSets, Bags, TLC

(* ---- bounds of the model ---- *)
\* number of goroutines that serve calls concurrently
NumProcs == 2
\* total number of direct store calls started in one behaviour
MaxCalls == 3
\* total number of HTTP requests started in one behaviour
MaxRequests == 2

Procs == 1..NumProcs

(* ---- model/types: domain constants ---- *)
TierVIP == "VIP"
TierFrontRow == "FRONT_ROW"
TierGA == "GA"

BookingStatusPending == "PENDING"
BookingStatusConfirmed == "CONFIRMED"
BookingStatusFailed == "FAILED"
BookingStatusCanceled == "CANCELED"

PaymentStatusPending == "PENDING"
PaymentStatusConfirmed == "CONFIRMED"
PaymentStatusFailed == "FAILED"
PaymentStatusCanceled == "CANCELED"

\* NewBookingStoreBucket: TOTAL_SEAT: 100
TOTAL_SEAT == 100

\* the zero value model.BookingOrder{}
ZeroOrder ==
  [UserID |-> "", Tier |-> "", Status |-> "", IdempotencyKey |-> "",
   Country |-> "", ZipCode |-> "", Currency |-> "", SeatNo |-> 0,
   TotalAmtInUSCent |-> 0, PaymentID |-> "", PaymentStatus |-> ""]

\* the zero value model.Booking{} (CreatedAt/UpdatedAt, wall-clock stamps, are
\* not modelled: no code reads them)
ZeroBooking ==
  [ID |-> 0, UserID |-> "", Tier |-> "", Status |-> "", IdempotencyKey |-> "",
   SeatNo |-> 0, Country |-> "", ZipCode |-> "", Currency |-> "",
   TotalAmtInUSCent |-> 0, PaymentID |-> "", PaymentStatus |-> ""]

VARIABLES
  BOOKING_STORE,      \* map[uint32]model.Booking: SeatNo -> Booking (a plain Go map)
  seatLocks,          \* sync.Map SeatNo -> *sync.Mutex; the value is the holder (0: unlocked)
  IDEMPOTENCY_STORE,  \* sync.Map IdempotencyKey -> BookingOrder
  idempotencyLocks,   \* sync.Map IdempotencyKey -> *sync.Mutex; value is the holder ("" key allowed)
  pc,                 \* each goroutine's position
  loc,                \* each goroutine's local variables
  nextID,             \* the ids uuid.New() has handed out so far
  raced,              \* goroutines whose in-flight map assignment overlapped another one
  crashed,            \* the Go runtime aborted the process (fatal error: concurrent map ...)
  calls,              \* number of calls started
  log                 \* bag of the completed calls with what they returned

vars == <<BOOKING_STORE, seatLocks, IDEMPOTENCY_STORE, idempotencyLocks, pc, loc,
          nextID, raced, crashed, calls, log>>

EmptyMap == [x \in {} |-> 0]

\* locals of an idle goroutine
ZeroLoc ==
  [op |-> "none", order |-> ZeroOrder, newBooking |-> ZeroBooking, err |-> "",
   exists |-> FALSE, stored |-> ZeroOrder,
   req |-> ZeroOrder, bookingOrder |-> ZeroOrder, idempotentOrder |-> ZeroOrder,
   stage |-> 0, pre |-> FALSE, taken |-> FALSE]

Init ==
  /\ BOOKING_STORE = EmptyMap
  /\ seatLocks = EmptyMap
  /\ IDEMPOTENCY_STORE = EmptyMap
  /\ idempotencyLocks = EmptyMap
  /\ pc = [p \in Procs |-> "idle"]
  /\ loc = [p \in Procs |-> ZeroLoc]
  /\ nextID = 0
  /\ raced = {}
  /\ crashed = FALSE
  /\ calls = 0
  /\ log = EmptyBag

\* net/http serves each call on a goroutine of its own; goroutines are
\* interchangeable, so a new call takes the lowest-numbered idle one
Dispatch(p) == pc[p] = "idle" /\ \A q \in Procs : q < p => pc[q] # "idle"

(* ---- sync.Map of mutexes ---- *)
\* mutant: Store in place of LoadOrStore: every call installs its new mutex
LoadOrStore_Store(locks, key) ==
  [x \in DOMAIN locks \cup {key} |-> IF x = key THEN 0 ELSE locks[x]]

\* sync.Map.LoadOrStore(key, &sync.Mutex{}): the existing mutex, or a new unlocked one
LoadOrStore(locks, key) ==
  IF key \in DOMAIN locks THEN locks ELSE locks @@ (key :> 0)

\* mutant: the deferred Unlock is missing
Unlock_Missing(locks, key) == locks

\* sync.Mutex.Unlock() on the mutex of key (deferred to the return)
Unlock(locks, key) == [locks EXCEPT ![key] = 0]

\* mutant: getSeatLock hands out a new mutex on every call (Store for LoadOrStore)
getSeatLock_Fresh(seatNo) ==
  [x \in DOMAIN seatLocks \cup {seatNo} |-> IF x = seatNo THEN 0 ELSE seatLocks[x]]

\* getSeatLock: the registry after the call (the mutex is the entry of seatNo)
getSeatLock(seatNo) == LoadOrStore(seatLocks, seatNo)

\* mutant: RegisterBooking without seatBookingLock.Lock()
SeatLockFree_NoLock(seatNo) == TRUE

\* mutant: one mutex for the whole store in place of one per seat
SeatLockFree_StoreWide(seatNo) == \A s \in DOMAIN seatLocks : seatLocks[s] = 0

\* sync.Mutex.Lock() on the seat's mutex can proceed
SeatLockFree(seatNo) == seatLocks[seatNo] = 0

(* ---- the plain Go map BOOKING_STORE under unsynchronised access ---- *)
\* goroutines inside the assignment b.BOOKING_STORE[seat] = newBooking
MapWriters == {p \in Procs : pc[p] = "reg_write"}

\* what a read of BOOKING_STORE can do: it races with any assignment in flight,
\* and then the runtime may abort the process
MapReadOutcomes == IF MapWriters # {} THEN {"ok", "fatal"} ELSE {"ok"}

\* what the assignment of goroutine p can do: alone it stores; overlapped by
\* another assignment it may store, be lost, or abort the process
MapWriteOutcomes(p) == IF p \in raced THEN {"stored", "lost", "fatal"} ELSE {"stored"}

(* ---- RegisterBooking ---- *)
\* lines 71-101: the record built from the order, with its derived status
NewBooking(o, id) ==
  LET s0 == o.Status
      s1 == IF o.PaymentID # "" /\ o.PaymentStatus = PaymentStatusConfirmed
            THEN BookingStatusConfirmed ELSE s0
      s2 == IF o.PaymentStatus = PaymentStatusFailed
               \/ o.PaymentStatus = PaymentStatusCanceled
            THEN BookingStatusCanceled ELSE s1
  IN [ID |-> id, UserID |-> o.UserID, Tier |-> o.Tier, Status |-> s2,
      IdempotencyKey |-> o.IdempotencyKey, SeatNo |-> o.SeatNo,
      Country |-> o.Country, ZipCode |-> o.ZipCode, Currency |-> o.Currency,
      TotalAmtInUSCent |-> o.TotalAmtInUSCent, PaymentID |-> o.PaymentID,
      PaymentStatus |-> o.PaymentStatus]

\* mutant: RegisterBooking without the validation of the seat number
InvalidSeat_Never(seatNo) == FALSE

\* mutant: the upper bound of the validation off by one
InvalidSeat_OffByOne(seatNo) == seatNo = 0 \/ seatNo >= TOTAL_SEAT

\* line 55: the cheap validation
InvalidSeat(seatNo) == seatNo = 0 \/ seatNo > TOTAL_SEAT

\* GetReservedSeats of an empty store: three nil slices
NoReservedSeats == [VIP |-> <<>>, FRONT_ROW |-> <<>>, GA |-> <<>>]

\* a completed call: what was asked and what came back
LogEntry(op, order, err, booking, ret, code, pre) ==
  [op |-> op, order |-> order, err |-> err, booking |-> booking, ret |-> ret,
   code |-> code, pre |-> pre, reserved |-> NoReservedSeats, tiers |-> <<>>,
   quiet |-> FALSE, booked |-> {}, taken |-> FALSE, quantity |-> 0, amount |-> 0]

\* RegisterBooking returns (booking, err) to its caller: a direct call is
\* logged, a call from HandleBooking continues there. l: the goroutine's locals.
RegReturn(p, l, booking, err) ==
  IF l.op = "register"
  THEN /\ pc' = [pc EXCEPT ![p] = "idle"]
       /\ loc' = [loc EXCEPT ![p] = ZeroLoc]
       /\ log' = log (+) SetToBag({LogEntry("register", l.order, err, booking,
                                            ZeroOrder, 0, FALSE)})
  ELSE /\ pc' = [pc EXCEPT ![p] = "hb_registered"]
       /\ loc' = [loc EXCEPT ![p] = [l EXCEPT !.newBooking = booking, !.err = err]]
       /\ log' = log

\* lines 54-60: validation, then getSeatLock; l: the locals at entry
RegEnter(p, l, o) ==
  IF InvalidSeat(o.SeatNo)
  THEN /\ RegReturn(p, [l EXCEPT !.order = o], ZeroBooking, "invalid seat number")
       /\ UNCHANGED seatLocks
  ELSE /\ seatLocks' = getSeatLock(o.SeatNo)
       /\ pc' = [pc EXCEPT ![p] = "reg_lock"]
       /\ loc' = [loc EXCEPT ![p] = [l EXCEPT !.order = o]]
       /\ log' = log

\* a direct call of RegisterBooking(o)
RegisterBooking(p, o) ==
  /\ ~crashed
  /\ Dispatch(p)
  /\ calls < MaxCalls
  /\ calls' = calls + 1
  /\ RegEnter(p, [ZeroLoc EXCEPT !.op = "register"], o)
  /\ UNCHANGED <<BOOKING_STORE, IDEMPOTENCY_STORE, idempotencyLocks, nextID, raced, crashed>>

\* line 61: seatBookingLock.Lock()
RegLock(p) ==
  /\ ~crashed
  /\ pc[p] = "reg_lock"
  /\ SeatLockFree(loc[p].order.SeatNo)
  /\ seatLocks' = [seatLocks EXCEPT ![loc[p].order.SeatNo] = p]
  /\ pc' = [pc EXCEPT ![p] = "reg_check"]
  /\ UNCHANGED <<BOOKING_STORE, IDEMPOTENCY_STORE, idempotencyLocks, loc, nextID, raced,
                 crashed, calls, log>>

\* mutant: the existence check looks at the next seat
SeatBooked_Neighbour(seatNo) == seatNo + 1 \in DOMAIN BOOKING_STORE

\* mutant: RegisterBooking without the existence check
SeatBooked_Never(seatNo) == FALSE

\* line 67: _, exists := b.BOOKING_STORE[seatNo]
SeatBooked(seatNo) == seatNo \in DOMAIN BOOKING_STORE

\* lines 67-101: the existence check; a taken seat returns the error and unlocks
\* (defer), a free one builds the record and starts the map assignment
RegCheck(p) ==
  /\ ~crashed
  /\ pc[p] = "reg_check"
  /\ \E outcome \in MapReadOutcomes :
       LET seat == loc[p].order.SeatNo IN
       IF outcome = "fatal"
       THEN /\ crashed' = TRUE
            /\ UNCHANGED <<BOOKING_STORE, seatLocks, pc, loc, nextID, raced, log>>
       ELSE IF SeatBooked(seat)
       THEN /\ seatLocks' = Unlock(seatLocks, seat)
            /\ RegReturn(p, loc[p], ZeroBooking, "seat already booked")
            /\ UNCHANGED <<BOOKING_STORE, nextID, raced, crashed>>
       ELSE /\ nextID' = nextID + 1
            /\ loc' = [loc EXCEPT ![p].newBooking = NewBooking(loc[p].order, nextID + 1)]
            /\ pc' = [pc EXCEPT ![p] = "reg_write"]
            /\ raced' = IF MapWriters # {} THEN raced \cup MapWriters \cup {p} ELSE raced
            /\ UNCHANGED <<BOOKING_STORE, seatLocks, crashed, log>>
  /\ UNCHANGED <<IDEMPOTENCY_STORE, idempotencyLocks, calls>>

\* mutant: the assignment writes the new record to every entry of the map
MapAssign_All(m, key, value) == [x \in DOMAIN m \cup {key} |-> value]

\* mutant: the assignment replaces the map by one that holds the new entry only
MapAssign_Replace(m, key, value) == (key :> value)

\* line 103: m[key] = value on a Go map
MapAssign(m, key, value) ==
  IF key \in DOMAIN m THEN [m EXCEPT ![key] = value] ELSE m @@ (key :> value)

\* lines 103-105: the map assignment completes, then return and the deferred Unlock
RegWrite(p) ==
  /\ ~crashed
  /\ pc[p] = "reg_write"
  /\ \E outcome \in MapWriteOutcomes(p) :
       LET nb == loc[p].newBooking IN
       IF outcome = "fatal"
       THEN /\ crashed' = TRUE
            /\ UNCHANGED <<BOOKING_STORE, seatLocks, pc, loc, raced, log>>
       ELSE /\ BOOKING_STORE' =
                 IF outcome = "lost" THEN BOOKING_STORE
                 ELSE MapAssign(BOOKING_STORE, nb.SeatNo, nb)
            /\ raced' = raced \ {p}
            /\ seatLocks' = Unlock(seatLocks, nb.SeatNo)
            /\ RegReturn(p, loc[p], nb, "")
            /\ UNCHANGED crashed
  /\ UNCHANGED <<IDEMPOTENCY_STORE, idempotencyLocks, nextID, calls>>

(* ---- HandleIdempotency ---- *)
\* getIdempotencyKeyLock: the registry after the call
getIdempotencyKeyLock(idempotencyKey) == LoadOrStore(idempotencyLocks, idempotencyKey)

\* mutant: HandleIdempotency without idempotencyKeyLock.Lock()
IdempotencyKeyLockFree_NoLock(idempotencyKey) == TRUE

\* sync.Mutex.Lock() on the key's mutex can proceed
IdempotencyKeyLockFree(idempotencyKey) == idempotencyLocks[idempotencyKey] = 0

\* mutant: the status is copied without the test for PENDING
StatusReported_Always(bookingOrderData) == TRUE

\* line 48: the incoming order reports a settled status
StatusReported(bookingOrderData) == bookingOrderData.Status # BookingStatusPending

\* mutant: the stored order is returned with the seat of the incoming one
ExistingOrder_IncomingSeat(bookingOrder, bookingOrderData) ==
  [bookingOrder EXCEPT !.SeatNo = bookingOrderData.SeatNo,
                       !.Status = IF bookingOrderData.Status # BookingStatusPending
                                  THEN bookingOrderData.Status ELSE bookingOrder.Status]

\* mutant: the update copies the user of the incoming order with its status
ExistingOrder_CopyUser(bookingOrder, bookingOrderData) ==
  IF bookingOrderData.Status # BookingStatusPending
  THEN [bookingOrder EXCEPT !.Status = bookingOrderData.Status,
                            !.UserID = bookingOrderData.UserID]
  ELSE bookingOrder

\* mutant: the incoming order is returned in place of the stored one
ExistingOrder_Incoming(bookingOrder, bookingOrderData) == bookingOrderData

\* mutant: a settled incoming order replaces the stored one, not only its status
ExistingOrder_Replace(bookingOrder, bookingOrderData) ==
  IF StatusReported(bookingOrderData) THEN bookingOrderData ELSE bookingOrder

\* lines 47-53: the order returned for a key that is already stored
ExistingOrder(bookingOrder, bookingOrderData) ==
  IF StatusReported(bookingOrderData)
  THEN [bookingOrder EXCEPT !.Status = bookingOrderData.Status]
  ELSE bookingOrder

\* mutant: Store drops the entries of the other keys
MapStore_Single(m, key, value) == (key :> value)

\* mutant: Store leaves an entry that exists as it is
MapStore_KeepOld(m, key, value) ==
  IF key \in DOMAIN m THEN m ELSE m @@ (key :> value)

\* sync.Map.Store(key, value)
MapStore(m, key, value) ==
  IF key \in DOMAIN m THEN [m EXCEPT ![key] = value] ELSE m @@ (key :> value)

\* HandleIdempotency returns the order to its caller: a direct call is logged,
\* a call from HandleBooking continues there. l: the goroutine's locals.
IdemReturn(p, l, ret) ==
  IF l.op = "idem"
  THEN /\ pc' = [pc EXCEPT ![p] = "idle"]
       /\ loc' = [loc EXCEPT ![p] = ZeroLoc]
       /\ log' = log (+) SetToBag({LogEntry("idem", l.order, "", ZeroBooking, ret,
                                            0, FALSE)})
  ELSE /\ pc' = [pc EXCEPT ![p] = IF l.stage = 1 THEN "hb_resolved" ELSE "hb_updated"]
       /\ loc' = [loc EXCEPT ![p] = [l EXCEPT !.idempotentOrder =
                                        IF l.stage = 1 THEN ret ELSE l.idempotentOrder,
                                      !.exists = FALSE, !.stored = ZeroOrder]]
       /\ log' = log

\* line 39: getIdempotencyKeyLock; l: the locals at entry
IdemEnter(p, l, o) ==
  /\ idempotencyLocks' = getIdempotencyKeyLock(o.IdempotencyKey)
  /\ pc' = [pc EXCEPT ![p] = "idem_lock"]
  /\ loc' = [loc EXCEPT ![p] = [l EXCEPT !.order = o]]

\* a direct call of HandleIdempotency(o)
HandleIdempotency(p, o) ==
  /\ ~crashed
  /\ Dispatch(p)
  /\ calls < MaxCalls
  /\ calls' = calls + 1
  /\ IdemEnter(p, [ZeroLoc EXCEPT !.op = "idem"], o)
  /\ UNCHANGED <<BOOKING_STORE, seatLocks, IDEMPOTENCY_STORE, nextID, raced, crashed, log>>

\* line 40: idempotencyKeyLock.Lock()
IdemLock(p) ==
  /\ ~crashed
  /\ pc[p] = "idem_lock"
  /\ IdempotencyKeyLockFree(loc[p].order.IdempotencyKey)
  /\ idempotencyLocks' = [idempotencyLocks EXCEPT ![loc[p].order.IdempotencyKey] = p]
  /\ pc' = [pc EXCEPT ![p] = "idem_load"]
  /\ UNCHANGED <<BOOKING_STORE, seatLocks, IDEMPOTENCY_STORE, loc, nextID, raced,
                 crashed, calls, log>>

\* line 46: IDEMPOTENCY_STORE.Load(key)
IdemLoad(p) ==
  /\ ~crashed
  /\ pc[p] = "idem_load"
  /\ LET key == loc[p].order.IdempotencyKey
         exists == key \in DOMAIN IDEMPOTENCY_STORE
     IN loc' = [loc EXCEPT ![p].exists = exists,
                           ![p].stored = IF exists THEN IDEMPOTENCY_STORE[key]
                                         ELSE ZeroOrder]
  /\ pc' = [pc EXCEPT ![p] = "idem_store"]
  /\ UNCHANGED <<BOOKING_STORE, seatLocks, IDEMPOTENCY_STORE, idempotencyLocks, nextID,
                 raced, crashed, calls, log>>

\* lines 47-59: the status update or the first Store, the return and the deferred Unlock
IdemStore(p) ==
  /\ ~crashed
  /\ pc[p] = "idem_store"
  /\ LET o == loc[p].order
         key == o.IdempotencyKey
         ret == IF loc[p].exists THEN ExistingOrder(loc[p].stored, o) ELSE o
     IN /\ IDEMPOTENCY_STORE' =
             IF loc[p].exists /\ ~StatusReported(o)
             THEN IDEMPOTENCY_STORE
             ELSE MapStore(IDEMPOTENCY_STORE, key, ret)
        /\ idempotencyLocks' = Unlock(idempotencyLocks, key)
        /\ IdemReturn(p, loc[p], ret)
  /\ UNCHANGED <<BOOKING_STORE, seatLocks, nextID, raced, crashed, calls>>

\* lines 34-60 run without interruption on the store m: <<the order returned,
\* the store afterwards>>
HandleIdempotencyOn(m, bookingOrderData) ==
  LET key == bookingOrderData.IdempotencyKey
      exists == key \in DOMAIN m
      ret == IF exists THEN ExistingOrder(m[key], bookingOrderData) ELSE bookingOrderData
  IN << ret,
        IF exists /\ ~StatusReported(bookingOrderData) THEN m ELSE MapStore(m, key, ret) >>

(* ---- utils ---- *)
\* model: Tier.IsValidTier
IsValidTier(t) == t \in {TierVIP, TierFrontRow, TierGA}

\* model: PaymentStatus.IsValidPaymentStatus
IsValidPaymentStatus(t) ==
  t \in {PaymentStatusPending, PaymentStatusConfirmed, PaymentStatusFailed,
         PaymentStatusCanceled}

\* mutant: ValidateBookingRequest without the test of the tier
ValidateBookingRequest_NoTier(req) ==
  IF req.UserID = "" THEN "user_id is required"
  ELSE IF req.IdempotencyKey = "" THEN "idempotency_key is required"
  ELSE IF req.SeatNo = 0 THEN "seat_no must be greater than 0"
  ELSE IF ~IsValidPaymentStatus(req.PaymentStatus) THEN "invalid payment status"
  ELSE ""

\* ValidateBookingRequest: the error message, "" for nil
ValidateBookingRequest(req) ==
  IF req.UserID = "" THEN "user_id is required"
  ELSE IF req.IdempotencyKey = "" THEN "idempotency_key is required"
  ELSE IF req.SeatNo = 0 THEN "seat_no must be greater than 0"
  ELSE IF ~IsValidTier(req.Tier) THEN "invalid tier"
  ELSE IF ~IsValidPaymentStatus(req.PaymentStatus) THEN "invalid payment status"
  ELSE ""

\* CalculateAmount(tier), in US cents
CalculateAmount(tier) ==
  IF tier = TierVIP THEN 100 * 100
  ELSE IF tier = TierFrontRow THEN 50 * 100
  ELSE IF tier = TierGA THEN 10 * 100
  ELSE 10 * 100

\* the product of two uint16 values as a uint16: a * b modulo 2^16, computed
\* from the two bytes of b so that no intermediate value leaves 32 bits
MulUint16(a, b) ==
  (a * (b % 256) + ((a * (b \div 256)) % 256) * 256) % 65536

\* utils.go:29-42: CalculateAmount(tier, quantity) of the version with a
\* quantity: pricePerSeat and quantity are uint16, so is their product, which
\* is widened to uint64 only afterwards
CalculateAmountOf(tier, quantity) ==
  LET pricePerSeat == IF tier = TierVIP THEN 50000
                      ELSE IF tier = TierFrontRow THEN 20000
                      ELSE IF tier = TierGA THEN 10000
                      ELSE 10000
  IN MulUint16(pricePerSeat, quantity)

\* a call of CalculateAmount(tier, quantity)
CalculateAmountCall(tier, quantity) ==
  /\ ~crashed
  /\ calls < MaxCalls
  /\ calls' = calls + 1
  /\ log' = log (+) SetToBag({
       [LogEntry("amount", [ZeroOrder EXCEPT !.Tier = tier], "", ZeroBooking, ZeroOrder,
                 0, FALSE)
          EXCEPT !.quantity = quantity,
                 !.amount = CalculateAmountOf(tier, quantity)]})
  /\ UNCHANGED <<BOOKING_STORE, seatLocks, IDEMPOTENCY_STORE, idempotencyLocks, pc, loc,
                 nextID, raced, crashed>>

StatusOK == 200
StatusBadRequest == 400
StatusConflict == 409
StatusInternalServerError == 500

(* ---- HandleBooking ---- *)
\* utils.RespondError / utils.RespondSuccess: the response ends the request
Respond(p, l, code, message, booking) ==
  /\ pc' = [pc EXCEPT ![p] = "idle"]
  /\ loc' = [loc EXCEPT ![p] = ZeroLoc]
  /\ log' = log (+) SetToBag({[LogEntry("booking", l.req, message, booking, ZeroOrder,
                                        code, l.pre) EXCEPT !.taken = l.taken]})

\* lines 46-59: the order built from the request
BookingOrderOf(req) ==
  [UserID |-> req.UserID, Tier |-> req.Tier, Status |-> BookingStatusPending,
   IdempotencyKey |-> req.IdempotencyKey, Country |-> req.Country,
   ZipCode |-> req.ZipCode, Currency |-> req.Currency, SeatNo |-> req.SeatNo,
   TotalAmtInUSCent |-> CalculateAmount(req.Tier), PaymentID |-> req.PaymentID,
   PaymentStatus |-> req.PaymentStatus]

\* lines 24-62: a request arrives; validation, the order, the first
\* HandleIdempotency call up to its lock
HandleBooking(p, req) ==
  /\ ~crashed
  /\ Dispatch(p)
  /\ calls < MaxRequests
  /\ calls' = calls + 1
  /\ LET l == [ZeroLoc EXCEPT !.op = "booking", !.req = req,
                              !.bookingOrder = BookingOrderOf(req), !.stage = 1,
                              !.pre = /\ req.SeatNo \in DOMAIN BOOKING_STORE
                                      /\ BOOKING_STORE[req.SeatNo].IdempotencyKey
                                           = req.IdempotencyKey,
                              !.taken = /\ req.SeatNo \in DOMAIN BOOKING_STORE
                                        /\ BOOKING_STORE[req.SeatNo].IdempotencyKey
                                             # req.IdempotencyKey
                                        /\ req.IdempotencyKey \notin DOMAIN IDEMPOTENCY_STORE]
     IN IF ValidateBookingRequest(req) # ""
        THEN /\ Respond(p, l, StatusBadRequest, ValidateBookingRequest(req), ZeroBooking)
             /\ UNCHANGED idempotencyLocks
        ELSE /\ IdemEnter(p, l, l.bookingOrder)
             /\ log' = log
  /\ UNCHANGED <<BOOKING_STORE, seatLocks, IDEMPOTENCY_STORE, nextID, raced, crashed>>

\* lines 64-76: after the first HandleIdempotency call: a confirmed order is
\* answered from GetBooking (a map read), any other goes to RegisterBooking
HandleBookingResolved(p) ==
  /\ ~crashed
  /\ pc[p] = "hb_resolved"
  /\ LET io == loc[p].idempotentOrder IN
     IF io.Status = BookingStatusConfirmed
     THEN \E outcome \in MapReadOutcomes :
            IF outcome = "fatal"
            THEN /\ crashed' = TRUE
                 /\ UNCHANGED <<seatLocks, pc, loc, log>>
            ELSE /\ IF io.SeatNo \in DOMAIN BOOKING_STORE
                    THEN Respond(p, loc[p], StatusOK, "booking already confirmed",
                                 BOOKING_STORE[io.SeatNo])
                    ELSE Respond(p, loc[p], StatusInternalServerError,
                                 "booking not found", ZeroBooking)
                 /\ UNCHANGED <<seatLocks, crashed>>
     ELSE /\ RegEnter(p, loc[p], io)
          /\ UNCHANGED crashed
  /\ UNCHANGED <<BOOKING_STORE, IDEMPOTENCY_STORE, idempotencyLocks, nextID, raced, calls>>

\* lines 77-88: after RegisterBooking: the error response, or the status is
\* copied into the order and, when it is not PENDING, sent to HandleIdempotency
HandleBookingRegistered(p) ==
  /\ ~crashed
  /\ pc[p] = "hb_registered"
  /\ LET nb == loc[p].newBooking
         l == [loc[p] EXCEPT !.bookingOrder.Status = nb.Status, !.stage = 2]
     IN IF loc[p].err # ""
        THEN /\ Respond(p, loc[p], StatusConflict, loc[p].err, ZeroBooking)
             /\ UNCHANGED idempotencyLocks
        ELSE IF nb.Status # BookingStatusPending
        THEN /\ IdemEnter(p, l, l.bookingOrder)
             /\ log' = log
        ELSE /\ Respond(p, loc[p], StatusOK, "new booking successful", nb)
             /\ UNCHANGED idempotencyLocks
  /\ UNCHANGED <<BOOKING_STORE, seatLocks, IDEMPOTENCY_STORE, nextID, raced, crashed, calls>>

\* lines 90-99: after the second HandleIdempotency call: the success response
HandleBookingUpdated(p) ==
  /\ ~crashed
  /\ pc[p] = "hb_updated"
  /\ Respond(p, loc[p], StatusOK, "new booking successful", loc[p].newBooking)
  /\ UNCHANGED <<BOOKING_STORE, seatLocks, IDEMPOTENCY_STORE, idempotencyLocks, nextID,
                 raced, crashed, calls>>

(* ---- GetBooking ---- *)
\* a direct call of GetBooking(seatNo): one read of the map, no lock.
\* pre: a RegisterBooking call for the seat had returned success by then.
GetBooking(p, seatNo) ==
  /\ ~crashed
  /\ Dispatch(p)
  /\ calls < MaxCalls
  /\ calls' = calls + 1
  /\ \E outcome \in MapReadOutcomes :
       IF outcome = "fatal"
       THEN /\ crashed' = TRUE
            /\ log' = log
       ELSE /\ LET exists == seatNo \in DOMAIN BOOKING_STORE
                    order == [ZeroOrder EXCEPT !.SeatNo = seatNo]
                    pre == \E e \in BagToSet(log) :
                             e.op = "register" /\ e.err = "" /\ e.order.SeatNo = seatNo
                IN log' = log (+) SetToBag({
                     IF exists
                     THEN LogEntry("get", order, "", BOOKING_STORE[seatNo], ZeroOrder, 0, pre)
                     ELSE LogEntry("get", order, "booking not found", ZeroBooking,
                                   ZeroOrder, 0, pre)})
            /\ UNCHANGED crashed
  /\ UNCHANGED <<BOOKING_STORE, seatLocks, IDEMPOTENCY_STORE, idempotencyLocks, pc, loc,
                 nextID, raced>>

(* ---- GetReservedSeats and HandleAvailability ---- *)
\* the orders in which a range over a Go map can visit the seats of S
Enumerations(S) ==
  {q \in [1..Cardinality(S) -> S] : \A i, j \in 1..Cardinality(S) : q[i] = q[j] => i = j}

\* mutant: every booked seat is appended to the list of every tier
ReservedOf_All(tier) == DOMAIN BOOKING_STORE

\* the seats GetReservedSeats appends to the list of a tier
ReservedOf(tier) == {s \in DOMAIN BOOKING_STORE : BOOKING_STORE[s].Tier = tier}

\* GetReservedSeats: the maps it can return (map iteration order is unspecified)
GetReservedSeats ==
  {[VIP |-> v, FRONT_ROW |-> f, GA |-> g] :
     v \in Enumerations(ReservedOf(TierVIP)),
     f \in Enumerations(ReservedOf(TierFrontRow)),
     g \in Enumerations(ReservedOf(TierGA))}

VIPTotal == 30
FrontRowTotal == 30
GATotal == 40
PriceVIPCents == 10000
PriceFrontRowCents == 5000
PriceGACents == 1000

\* mutant: the loop of the helper stops before maxSeat
calculateAvailableSeats_Exclusive(minSeat, maxSeat, reserved) ==
  LET reservedSet == {reserved[i] : i \in DOMAIN reserved}
      range == [i \in 1..(maxSeat - minSeat) |-> minSeat + i - 1]
  IN SelectSeq(range, LAMBDA seat : seat \notin reservedSet)

\* the helper closure of HandleAvailability
calculateAvailableSeats(minSeat, maxSeat, reserved) ==
  LET reservedSet == {reserved[i] : i \in DOMAIN reserved}
      range == [i \in 1..(maxSeat - minSeat + 1) |-> minSeat + i - 1]
  IN SelectSeq(range, LAMBDA seat : seat \notin reservedSet)

\* lines 107-157: the tiers of the response
AvailabilityTiers(reservedSeats) ==
  << [Tier |-> TierVIP, Price |-> PriceVIPCents, TotalSeats |-> VIPTotal,
      ReservedCount |-> Len(reservedSeats["VIP"]),
      AvailableList |-> calculateAvailableSeats(1, 30, reservedSeats["VIP"])],
     [Tier |-> TierFrontRow, Price |-> PriceFrontRowCents, TotalSeats |-> FrontRowTotal,
      ReservedCount |-> Len(reservedSeats["FRONT_ROW"]),
      AvailableList |-> calculateAvailableSeats(31, 60, reservedSeats["FRONT_ROW"])],
     [Tier |-> TierGA, Price |-> PriceGACents, TotalSeats |-> GATotal,
      ReservedCount |-> Len(reservedSeats["GA"]),
      AvailableList |-> calculateAvailableSeats(61, 100, reservedSeats["GA"])] >>

\* a direct call of GetReservedSeats(): one sweep over the map, no lock
GetReservedSeatsCall(p) ==
  /\ ~crashed
  /\ Dispatch(p)
  /\ calls < MaxCalls
  /\ calls' = calls + 1
  /\ \E outcome \in MapReadOutcomes :
       IF outcome = "fatal"
       THEN /\ crashed' = TRUE
            /\ log' = log
       ELSE /\ \E reservedSeats \in GetReservedSeats :
                 log' = log (+) SetToBag({
                   [LogEntry("reserved", ZeroOrder, "", ZeroBooking, ZeroOrder, 0, FALSE)
                      EXCEPT !.reserved = reservedSeats,
                             !.quiet = \A q \in Procs : pc[q] = "idle",
                             !.booked = DOMAIN BOOKING_STORE]})
            /\ UNCHANGED crashed
  /\ UNCHANGED <<BOOKING_STORE, seatLocks, IDEMPOTENCY_STORE, idempotencyLocks, pc, loc,
                 nextID, raced>>

\* GET /booking/availability: the snapshot (a read of the map) and the response.
\* quiet: no other call was in flight when it was served; booked: the seats
\* that held a record then.
HandleAvailability(p) ==
  /\ ~crashed
  /\ Dispatch(p)
  /\ calls < MaxRequests
  /\ calls' = calls + 1
  /\ \E outcome \in MapReadOutcomes :
       IF outcome = "fatal"
       THEN /\ crashed' = TRUE
            /\ log' = log
       ELSE /\ \E reservedSeats \in GetReservedSeats :
                 log' = log (+) SetToBag({
                   [LogEntry("avail", ZeroOrder, "reserved seats retrieved successfully",
                             ZeroBooking, ZeroOrder, StatusOK, FALSE)
                      EXCEPT !.reserved = reservedSeats,
                             !.tiers = AvailabilityTiers(reservedSeats),
                             !.quiet = \A q \in Procs : pc[q] = "idle",
                             !.booked = DOMAIN BOOKING_STORE]})
            /\ UNCHANGED crashed
  /\ UNCHANGED <<BOOKING_STORE, seatLocks, IDEMPOTENCY_STORE, idempotencyLocks, pc, loc,
                 nextID, raced>>

(* ---- inputs ---- *)
\* the billing fields a user sends
OrderOf(user, tier, seat, key, status, payID, payStatus) ==
  [UserID |-> user, Tier |-> tier, Status |-> status, IdempotencyKey |-> key,
   Country |-> IF user = "u1" THEN "US" ELSE "UK",
   ZipCode |-> IF user = "u1" THEN "10001" ELSE "SW1A",
   Currency |-> IF user = "u1" THEN "USD" ELSE "GBP",
   SeatNo |-> seat, TotalAmtInUSCent |-> 0, PaymentID |-> payID,
   PaymentStatus |-> payStatus]

\* orders of the direct RegisterBooking calls
RegisterOrders ==
  {OrderOf(u, TierVIP, s, "k1", BookingStatusPending, pay[1], pay[2]) :
     u \in {"u1", "u2"}, s \in {1, 2},
     pay \in {<<"", PaymentStatusPending>>, <<"p1", PaymentStatusConfirmed>>}}

NextRegister ==
  \E p \in Procs :
    \/ \E o \in RegisterOrders : RegisterBooking(p, o)
    \/ RegLock(p)
    \/ RegCheck(p)
    \/ RegWrite(p)

SpecRegister == Init /\ [][NextRegister]_vars

\* orders of the direct HandleIdempotency calls
IdempotencyOrders ==
  {OrderOf(u, TierVIP, IF u = "u1" THEN 1 ELSE 2, k, st, "", PaymentStatusPending) :
     u \in {"u1", "u2"}, k \in {"k1", "k2"},
     st \in {BookingStatusPending, BookingStatusConfirmed, BookingStatusCanceled}}

NextIdempotency ==
  \E p \in Procs :
    \/ \E o \in IdempotencyOrders : HandleIdempotency(p, o)
    \/ IdemLock(p)
    \/ IdemLoad(p)
    \/ IdemStore(p)

SpecIdempotency == Init /\ [][NextIdempotency]_vars

\* the payment a client reports with its key (a retry repeats it)
PaymentOf(key) ==
  IF key = "k1" THEN <<"", PaymentStatusPending>>
  ELSE IF key = "k2" THEN <<"p2", PaymentStatusConfirmed>>
  ELSE <<"p3", PaymentStatusFailed>>

\* requests of POST /booking/ticket
BookingRequests ==
  {OrderOf(IF s = 1 THEN "u1" ELSE "u2", TierVIP, s, k, "", PaymentOf(k)[1],
           PaymentOf(k)[2]) :
     s \in {1, 2}, k \in {"k1", "k2", "k3"}}

Next ==
  \E p \in Procs :
    \/ \E req \in BookingRequests : HandleBooking(p, req)
    \/ IdemLock(p)
    \/ IdemLoad(p)
    \/ IdemStore(p)
    \/ HandleBookingResolved(p)
    \/ RegLock(p)
    \/ RegCheck(p)
    \/ RegWrite(p)
    \/ HandleBookingRegistered(p)
    \/ HandleBookingUpdated(p)

Spec == Init /\ [][Next]_vars

\* one step of the request that goroutine p serves
Step(p) ==
  \/ IdemLock(p)
  \/ IdemLoad(p)
  \/ IdemStore(p)
  \/ HandleBookingResolved(p)
  \/ RegLock(p)
  \/ RegCheck(p)
  \/ RegWrite(p)
  \/ HandleBookingRegistered(p)
  \/ HandleBookingUpdated(p)

\* the Go scheduler keeps running every goroutine that can run, and a
\* sync.Mutex is handed to a goroutine that waits for it
SpecFair == Spec /\ \A p \in Procs : WF_vars(Step(p))

\* requests that contend for two seat locks and two key locks
LockRequests == {req \in BookingRequests : req.IdempotencyKey \in {"k1", "k2"}}

NextLocks ==
  \E p \in Procs :
    \/ \E req \in LockRequests : HandleBooking(p, req)
    \/ IdemLock(p)
    \/ IdemLoad(p)
    \/ IdemStore(p)
    \/ HandleBookingResolved(p)
    \/ RegLock(p)
    \/ RegCheck(p)
    \/ RegWrite(p)
    \/ HandleBookingRegistered(p)
    \/ HandleBookingUpdated(p)

SpecLocks == Init /\ [][NextLocks]_vars

\* every operation of the server: bookings on two seats under two keys, and
\* availability queries
NextOperations ==
  \E p \in Procs :
    \/ \E req \in LockRequests : HandleBooking(p, req)
    \/ IdemLock(p)
    \/ IdemLoad(p)
    \/ IdemStore(p)
    \/ HandleBookingResolved(p)
    \/ RegLock(p)
    \/ RegCheck(p)
    \/ RegWrite(p)
    \/ HandleBookingRegistered(p)
    \/ HandleBookingUpdated(p)
    \/ HandleAvailability(p)

SpecOperations == Init /\ [][NextOperations]_vars

\* requests of POST /booking/ticket of every tier, at both sides of the
\* boundary between the VIP and the FRONT_ROW seats
AvailabilityRequests ==
  {OrderOf("u1", t, s, k, "", PaymentOf(k)[1], PaymentOf(k)[2]) :
     t \in {TierVIP, TierFrontRow}, s \in {30, 31}, k \in {"k1", "k2"}}

NextAvailability ==
  \E p \in Procs :
    \/ \E req \in AvailabilityRequests : HandleBooking(p, req)
    \/ IdemLock(p)
    \/ IdemLoad(p)
    \/ IdemStore(p)
    \/ HandleBookingResolved(p)
    \/ RegLock(p)
    \/ RegCheck(p)
    \/ RegWrite(p)
    \/ HandleBookingRegistered(p)
    \/ HandleBookingUpdated(p)
    \/ HandleAvailability(p)

SpecAvailability == Init /\ [][NextAvailability]_vars

\* orders of direct RegisterBooking calls on one seat that differ in the
\* caller's Status and in the payment fields
StatusOrders ==
  {OrderOf("u1", TierVIP, 1, "k1", st, pay[1], pay[2]) :
     st \in {BookingStatusPending, BookingStatusConfirmed, BookingStatusFailed},
     pay \in {<<"", PaymentStatusPending>>, <<"p1", PaymentStatusConfirmed>>,
              <<"", PaymentStatusConfirmed>>, <<"p1", PaymentStatusFailed>>,
              <<"p1", PaymentStatusCanceled>>}}

NextStatus ==
  \E p \in Procs :
    \/ \E o \in StatusOrders : RegisterBooking(p, o)
    \/ RegLock(p)
    \/ RegCheck(p)
    \/ RegWrite(p)

SpecStatus == Init /\ [][NextStatus]_vars

\* orders of direct RegisterBooking calls at both ends of the seat range
BoundaryOrders ==
  {OrderOf(u, TierGA, s, "k1", BookingStatusPending, "", PaymentStatusPending) :
     u \in {"u1", "u2"}, s \in {0, 1, TOTAL_SEAT, TOTAL_SEAT + 1}}

NextBoundary ==
  \E p \in Procs :
    \/ \E o \in BoundaryOrders : RegisterBooking(p, o)
    \/ RegLock(p)
    \/ RegCheck(p)
    \/ RegWrite(p)

SpecBoundary == Init /\ [][NextBoundary]_vars

\* direct RegisterBooking and GetBooking calls on two seats
NextLookup ==
  \E p \in Procs :
    \/ \E o \in RegisterOrders : RegisterBooking(p, o)
    \/ RegLock(p)
    \/ RegCheck(p)
    \/ RegWrite(p)
    \/ \E seatNo \in {1, 2} : GetBooking(p, seatNo)

SpecLookup == Init /\ [][NextLookup]_vars

\* direct RegisterBooking and GetReservedSeats calls on two seats
NextSnapshot ==
  \E p \in Procs :
    \/ \E o \in RegisterOrders : RegisterBooking(p, o)
    \/ RegLock(p)
    \/ RegCheck(p)
    \/ RegWrite(p)
    \/ GetReservedSeatsCall(p)

SpecSnapshot == Init /\ [][NextSnapshot]_vars

\* orders passed to both stores directly: one key, two seats, the status
\* PENDING or CONFIRMED, no payment yet
StoreOrders ==
  {OrderOf(IF s = 1 THEN "u1" ELSE "u2", TierVIP, s, "k1", st, "", PaymentStatusPending) :
     s \in {1, 2}, st \in {BookingStatusPending, BookingStatusConfirmed}}

\* direct calls of both stores
NextStores ==
  \E p \in Procs :
    \/ \E o \in StoreOrders : RegisterBooking(p, o)
    \/ RegLock(p)
    \/ RegCheck(p)
    \/ RegWrite(p)
    \/ \E o \in StoreOrders : HandleIdempotency(p, o)
    \/ IdemLock(p)
    \/ IdemLoad(p)
    \/ IdemStore(p)

SpecStores == Init /\ [][NextStores]_vars

\* requests of POST /booking/ticket with every combination of a present or
\* missing user id and key, seat 0 or 1, and a known or unknown tier
ValidationRequests ==
  {OrderOf(u, t, s, k, "", PaymentOf(k)[1], PaymentOf(k)[2]) :
     u \in {"", "u1"}, t \in {TierVIP, "INVALID_TIER"}, s \in {0, 1},
     k \in {"", "k1", "k2"}}

NextValidation ==
  \E p \in Procs :
    \/ \E req \in ValidationRequests : HandleBooking(p, req)
    \/ IdemLock(p)
    \/ IdemLoad(p)
    \/ IdemStore(p)
    \/ HandleBookingResolved(p)
    \/ RegLock(p)
    \/ RegCheck(p)
    \/ RegWrite(p)
    \/ HandleBookingRegistered(p)
    \/ HandleBookingUpdated(p)

SpecValidation == Init /\ [][NextValidation]_vars

\* orders of direct RegisterBooking calls of two tiers, at both sides of the
\* boundary between the VIP and the FRONT_ROW seats, and one of an unknown
\* tier (RegisterBooking does not look at the tier)
TierOrders ==
  {OrderOf("u1", t, s, "k1", BookingStatusPending, "", PaymentStatusPending) :
     t \in {TierVIP, TierFrontRow}, s \in {30, 31}}
  \cup {OrderOf("u1", "INVALID_TIER", 30, "k1", BookingStatusPending, "",
                PaymentStatusPending)}

\* direct registrations, direct snapshots and GET /booking/availability
NextTiers ==
  \E p \in Procs :
    \/ \E o \in TierOrders : RegisterBooking(p, o)
    \/ RegLock(p)
    \/ RegCheck(p)
    \/ RegWrite(p)
    \/ GetReservedSeatsCall(p)
    \/ HandleAvailability(p)

SpecTiers == Init /\ [][NextTiers]_vars

\* requests of POST /booking/ticket whose payment is confirmed (k2) or has
\* failed (k3), at both sides of the boundary between VIP and FRONT_ROW
CanceledRequests ==
  {OrderOf("u1", TierVIP, s, k, "", PaymentOf(k)[1], PaymentOf(k)[2]) :
     s \in {30, 31}, k \in {"k2", "k3"}}

\* orders of direct RegisterBooking calls whose payment was canceled
CanceledOrders ==
  {OrderOf("u2", t, s, "k1", BookingStatusPending, "p1", PaymentStatusCanceled) :
     t \in {TierVIP}, s \in {29, 30}}

NextCanceled ==
  \E p \in Procs :
    \/ \E req \in CanceledRequests : HandleBooking(p, req)
    \/ \E o \in CanceledOrders : RegisterBooking(p, o)
    \/ IdemLock(p)
    \/ IdemLoad(p)
    \/ IdemStore(p)
    \/ HandleBookingResolved(p)
    \/ RegLock(p)
    \/ RegCheck(p)
    \/ RegWrite(p)
    \/ HandleBookingRegistered(p)
    \/ HandleBookingUpdated(p)
    \/ HandleAvailability(p)

SpecCanceled == Init /\ [][NextCanceled]_vars

\* orders of direct HandleIdempotency calls on one key: two payloads, each
\* with every status a caller reports
RepeatOrders ==
  {OrderOf(u, TierVIP, IF u = "u1" THEN 1 ELSE 2, "k1", st, "", PaymentStatusPending) :
     u \in {"u1", "u2"},
     st \in {BookingStatusPending, BookingStatusConfirmed, BookingStatusCanceled}}

NextRepeat ==
  \E p \in Procs :
    \/ \E o \in RepeatOrders : HandleIdempotency(p, o)
    \/ IdemLock(p)
    \/ IdemLoad(p)
    \/ IdemStore(p)

SpecRepeat == Init /\ [][NextRepeat]_vars

\* quantities of a request: the smallest, the first whose product leaves 16
\* bits for each price, and the largest
Quantities == {1, 2, 3, 4, 6, 7, 65535}

NextAmount ==
  \E tier \in {TierVIP, TierFrontRow, TierGA, "INVALID_TIER"}, quantity \in Quantities :
    CalculateAmountCall(tier, quantity)

SpecAmount == Init /\ [][NextAmount]_vars

(* ======================= properties ======================= *)
\* the distinct completed calls
Entries == BagToSet(log)

\* how many completed calls are in the set E of entries
NumberOf(E) == BagCardinality([e \in E |-> log[e]])

\* no call is in flight
AllIdle == \A p \in Procs : pc[p] = "idle"

\* an order without its status
NoStatus(o) == [o EXCEPT !.Status = ""]

RegisterOK(s) ==
  {e \in Entries : e.op = "register" /\ e.err = "" /\ e.order.SeatNo = s}

\* every call so far, completed or in flight, is a RegisterBooking call on seat s
OnlySeat(s) ==
  /\ \A e \in Entries : e.op = "register" /\ e.order.SeatNo = s
  /\ \A p \in Procs : pc[p] # "idle" => loc[p].op = "register" /\ loc[p].order.SeatNo = s

\* C1: over any interleaving of RegisterBooking calls, at most one call per
\* seat returns success, and the record held for the seat is the one that call built
C1_OneWinnerPerSeat ==
  \A s \in {e.order.SeatNo : e \in Entries} :
    /\ NumberOf(RegisterOK(s)) <= 1
    /\ \A w \in RegisterOK(s) : s \in DOMAIN BOOKING_STORE /\ BOOKING_STORE[s] = w.booking

\* C2: N >= 2 RegisterBooking calls that all ask for the same free valid seat
\* end with exactly one success and N-1 "seat already booked" errors, and no
\* moment has more than one success
C2_SameSeatOneSuccess ==
  \A s \in 1..TOTAL_SEAT :
    OnlySeat(s) =>
      /\ NumberOf(RegisterOK(s)) <= 1
      /\ (AllIdle /\ BagCardinality(log) >= 2) =>
           /\ NumberOf(RegisterOK(s)) = 1
           /\ NumberOf({e \in Entries : e.err = "seat already booked"})
                = BagCardinality(log) - 1

C2_Witness ==
  /\ AllIdle
  /\ BagCardinality(log) >= 2
  /\ OnlySeat(1)
  /\ \E e \in Entries : e.err = "seat already booked"
  /\ \E e1, e2 \in Entries : e1.order.UserID # e2.order.UserID

\* the completed calls are N >= 2 HandleIdempotency calls with key k whose
\* payloads differ pairwise, and nothing is in flight
SameKeyCalls(k) ==
  /\ AllIdle
  /\ BagCardinality(log) >= 2
  /\ \A e \in Entries : e.op = "idem" /\ e.order.IdempotencyKey = k /\ log[e] = 1
  /\ \A e1, e2 \in Entries : e1 # e2 => e1.order # e2.order

OnlyKey(k) ==
  /\ \A e \in Entries : e.op = "booking" /\ e.order.IdempotencyKey = k
  /\ \A p \in Procs : pc[p] # "idle" => loc[p].op = "booking" /\ loc[p].req.IdempotencyKey = k

\* C4: HandleBooking requests that all carry one idempotency key create at
\* most one BookingRecord in total (nextID counts the records built)
C4_OneBookingPerKey ==
  \A k \in {"k1", "k2", "k3"} :
    OnlyKey(k) => nextID <= 1 /\ Cardinality(DOMAIN BOOKING_STORE) <= 1

C4_Witness ==
  /\ AllIdle
  /\ OnlyKey("k2")
  /\ BagCardinality(log) >= 2
  /\ nextID = 1
  /\ \E e1, e2 \in Entries : e1.order.SeatNo # e2.order.SeatNo

\* C5: a HandleBooking request with key k and seat s that arrives when the
\* seat store already holds a booking of seat s under key k is answered 200
\* with a booking of seat s
C5_RetryAnswered200 ==
  \A e \in Entries :
    (e.op = "booking" /\ e.pre) => e.code = StatusOK /\ e.booking.SeatNo = e.order.SeatNo

\* C6: a stored status that is not PENDING never becomes PENDING again, and a
\* call whose incoming status is PENDING, for a stored key, leaves the record
\* as it is and returns it
C6_NeverBackToPending ==
  [][ /\ \A k \in DOMAIN IDEMPOTENCY_STORE :
           IDEMPOTENCY_STORE[k].Status # BookingStatusPending
             => /\ k \in DOMAIN IDEMPOTENCY_STORE'
                /\ IDEMPOTENCY_STORE'[k].Status # BookingStatusPending
      /\ \A p \in Procs :
           LET k == loc[p].order.IdempotencyKey IN
           ( /\ pc[p] = "idem_store" /\ pc'[p] # "idem_store"
             /\ loc[p].order.Status = BookingStatusPending
             /\ k \in DOMAIN IDEMPOTENCY_STORE )
             => /\ IDEMPOTENCY_STORE' = IDEMPOTENCY_STORE
                /\ log' = log (+) SetToBag({LogEntry("idem", loc[p].order, "", ZeroBooking,
                                                     IDEMPOTENCY_STORE[k], 0, FALSE)})
    ]_vars

C6_Witness ==
  \E e \in Entries :
    /\ e.op = "idem"
    /\ e.order.Status = BookingStatusPending
    /\ e.ret.Status = BookingStatusConfirmed
    /\ IDEMPOTENCY_STORE[e.order.IdempotencyKey].Status = BookingStatusConfirmed

\* a change of status from a to b is a settlement of a pending record
Settles(a, b) ==
  a # b => a = BookingStatusPending /\ b \in {BookingStatusConfirmed, BookingStatusCanceled}

\* C7: every change of a stored status, in either store, is PENDING -> CONFIRMED
\* or PENDING -> CANCELED
C7_StatusMonotonic ==
  [][ /\ \A k \in DOMAIN IDEMPOTENCY_STORE \cap DOMAIN IDEMPOTENCY_STORE' :
           Settles(IDEMPOTENCY_STORE[k].Status, IDEMPOTENCY_STORE'[k].Status)
      /\ \A s \in DOMAIN BOOKING_STORE \cap DOMAIN BOOKING_STORE' :
           Settles(BOOKING_STORE[s].Status, BOOKING_STORE'[s].Status)
    ]_vars

\* C8: the record stored for a key keeps every field other than the status
\* as first stored, and is never removed
C8_IdentityFieldsFixed ==
  [][ \A k \in DOMAIN IDEMPOTENCY_STORE :
        /\ k \in DOMAIN IDEMPOTENCY_STORE'
        /\ NoStatus(IDEMPOTENCY_STORE'[k]) = NoStatus(IDEMPOTENCY_STORE[k])
    ]_vars

C8_Witness ==
  \E e \in Entries :
    /\ e.op = "idem"
    /\ e.order.UserID # e.ret.UserID
    /\ e.order.Status = BookingStatusConfirmed
    /\ IDEMPOTENCY_STORE[e.order.IdempotencyKey] = e.ret

\* the availability responses served while no other call was in flight
QuietResponses == {e \in Entries : e.op = "avail" /\ e.quiet}

\* the elements of a list
Elems(list) == {list[i] : i \in DOMAIN list}

\* C9: in a quiescent state every tier of the availability response has
\* ReservedCount + length(AvailableList) = TotalSeats = 30, 30, 40
C9_CountsAddUp ==
  \A e \in QuietResponses :
    \A i \in 1..3 :
      /\ e.tiers[i].TotalSeats = <<30, 30, 40>>[i]
      /\ e.tiers[i].ReservedCount + Len(e.tiers[i].AvailableList) = e.tiers[i].TotalSeats

\* C10: in a quiescent state no booked seat is in an AvailableList, and the
\* reserved seats of a tier and its AvailableList partition the tier's range
C10_Partition ==
  \A e \in QuietResponses :
    \A i \in 1..3 :
      LET tier == <<"VIP", "FRONT_ROW", "GA">>[i]
          range == <<1..30, 31..60, 61..100>>[i]
          reserved == Elems(e.reserved[tier])
          available == Elems(e.tiers[i].AvailableList)
      IN /\ available \cap e.booked = {}
         /\ reserved \cup available = range
         /\ reserved \cap available = {}

\* the status the record of an accepted order is claimed to get
ClaimedStatus(o) ==
  IF o.PaymentID # "" /\ o.PaymentStatus = PaymentStatusConfirmed
  THEN BookingStatusConfirmed
  ELSE IF o.PaymentStatus \in {PaymentStatusFailed, PaymentStatusCanceled}
  THEN BookingStatusCanceled
  ELSE BookingStatusPending

\* C11: the record RegisterBooking returns and stores for an accepted order has
\* status CONFIRMED when PaymentID is non-empty and PaymentStatus is CONFIRMED,
\* else CANCELED when PaymentStatus is FAILED or CANCELED, else PENDING, for
\* every Status, PaymentID and PaymentStatus of the order
C11_StatusDerived ==
  /\ \A e \in Entries :
        (e.op = "register" /\ e.err = "") => e.booking.Status = ClaimedStatus(e.order)
  /\ \A s \in DOMAIN BOOKING_STORE :
        BOOKING_STORE[s].Status \in {BookingStatusPending, BookingStatusConfirmed,
                                     BookingStatusCanceled}

\* C12: RegisterBooking with seat 0 or seat > TOTAL_SEAT returns "invalid seat
\* number" and stores nothing; with seat 1 and seat TOTAL_SEAT it returns
\* success when the seat is free (it fails only on a seat that holds a record)
C12_SeatBoundary ==
  /\ \A e \in Entries :
        e.op = "register" =>
          IF e.order.SeatNo = 0 \/ e.order.SeatNo > 100
          THEN e.err = "invalid seat number" /\ e.booking = ZeroBooking
          ELSE \/ e.err = "" /\ e.booking.SeatNo = e.order.SeatNo
               \/ /\ e.err = "seat already booked"
                  /\ RegisterOK(e.order.SeatNo) # {}
  /\ DOMAIN BOOKING_STORE \subseteq 1..100
  /\ DOMAIN seatLocks \subseteq 1..100

C12_Witness ==
  /\ AllIdle
  /\ \E e \in Entries : e.order.SeatNo = 0 /\ e.err = "invalid seat number"
  /\ \E e \in Entries : e.order.SeatNo = 101 /\ e.err = "invalid seat number"
  /\ \E e \in Entries : e.order.SeatNo = 100 /\ e.err = ""
  /\ 100 \in DOMAIN BOOKING_STORE

\* C13: once a seat holds a record, the record stays as it is, and every
\* RegisterBooking call that makes its existence check on that seat returns
\* "seat already booked", whatever its payload and caller
C13_ConflictIsPermanent ==
  [][ /\ \A s \in DOMAIN BOOKING_STORE :
           s \in DOMAIN BOOKING_STORE' /\ BOOKING_STORE'[s] = BOOKING_STORE[s]
      /\ \A p \in Procs :
           ( /\ pc[p] = "reg_check" /\ pc'[p] # "reg_check"
             /\ loc[p].order.SeatNo \in DOMAIN BOOKING_STORE )
             => /\ pc'[p] = "idle"
                /\ log' = log (+) SetToBag({LogEntry("register", loc[p].order,
                                                     "seat already booked", ZeroBooking,
                                                     ZeroOrder, 0, FALSE)})
    ]_vars

C13_Witness ==
  /\ AllIdle
  /\ 1 \in DOMAIN BOOKING_STORE
  /\ NumberOf({e \in Entries : e.order.SeatNo = 1 /\ e.err = "seat already booked"}) >= 2
  /\ \E e \in Entries :
       /\ e.order.SeatNo = 1 /\ e.err = "seat already booked"
       /\ e.order.UserID # BOOKING_STORE[1].UserID
       /\ e.order.PaymentStatus # BOOKING_STORE[1].PaymentStatus

\* C14: GetBooking returns "booking not found" exactly when no RegisterBooking
\* call for the seat has returned success, and otherwise the record that the
\* successful call returned
C14_LookupMatchesRegister ==
  \A e \in Entries :
    e.op = "get" =>
      /\ (e.err = "booking not found") <=> ~e.pre
      /\ e.err = "" => e.booking \in {w.booking : w \in RegisterOK(e.order.SeatNo)}

\* C15: a HandleIdempotency call returns and stores the reference result for
\* the store as it is when the call completes: no record for the key: the order
\* itself, stored; a record and an incoming status other than PENDING: the record
\* with the incoming status, stored; a record and incoming PENDING: the record,
\* store unchanged. The result carries the key of the request.
C15_ReferenceResult ==
  [][ \A p \in Procs :
        ( pc[p] = "idem_store" /\ pc'[p] # "idem_store" /\ loc[p].op = "idem" ) =>
          LET o == loc[p].order
              k == o.IdempotencyKey
              known == k \in DOMAIN IDEMPOTENCY_STORE
              ref == IF ~known THEN o
                     ELSE IF o.Status # "PENDING"
                          THEN [IDEMPOTENCY_STORE[k] EXCEPT !.Status = o.Status]
                          ELSE IDEMPOTENCY_STORE[k]
          IN /\ log' = log (+) SetToBag({LogEntry("idem", o, "", ZeroBooking, ref, 0, FALSE)})
             /\ ref.IdempotencyKey = k
             /\ DOMAIN IDEMPOTENCY_STORE' = DOMAIN IDEMPOTENCY_STORE \cup {k}
             /\ \A j \in DOMAIN IDEMPOTENCY_STORE' :
                  IDEMPOTENCY_STORE'[j] =
                    IF j # k THEN IDEMPOTENCY_STORE[j]
                    ELSE IF known /\ o.Status = "PENDING" THEN IDEMPOTENCY_STORE[k]
                    ELSE ref
    ]_vars

C15_Witness ==
  /\ AllIdle
  /\ \E e1, e2, e3 \in Entries :
       /\ e1.op = "idem" /\ e2.op = "idem" /\ e3.op = "idem"
       /\ e1.order.IdempotencyKey = "k2" /\ e2.order.IdempotencyKey = "k2"
       /\ e3.order.IdempotencyKey = "k2"
       /\ e1.order.UserID = "u1" /\ e1.ret = e1.order
       /\ e1.order.Status = BookingStatusPending
       /\ e2.order.UserID = "u2" /\ e2.order.Status = BookingStatusCanceled
       /\ e2.ret = [e1.order EXCEPT !.Status = BookingStatusCanceled]
       /\ e3.order.UserID = "u2" /\ e3.order.Status = BookingStatusPending
       /\ e3.ret = e2.ret
       /\ IDEMPOTENCY_STORE["k2"] = e2.ret

ReadsMap(p) ==
  \/ pc[p] = "reg_check" /\ (pc'[p] # "reg_check" \/ crashed')
  \/ /\ pc[p] = "hb_resolved" /\ (pc'[p] # "hb_resolved" \/ crashed')
     /\ loc[p].idempotentOrder.Status = BookingStatusConfirmed

\* a step that serves GET /booking/availability: GetReservedSeats ranges over the map
IteratesMap == calls' = calls + 1 /\ pc' = pc

\* C17: an assignment to the seat map by one RegisterBooking call never
\* overlaps another access to the map: not the assignment of a call on another
\* seat, not a point read (existence check, GetBooking), not the iteration of
\* GetReservedSeats
C17_NoOverlappingMapAccess ==
  [][ /\ Cardinality(MapWriters') <= 1
      /\ \A p \in Procs : ReadsMap(p) => MapWriters \ {p} = {}
      /\ IteratesMap => MapWriters = {}
    ]_vars

\* goroutine p is inside the critical section of seat s: existence check to insert
InSeatSection(p, s) ==
  pc[p] \in {"reg_check", "reg_write"} /\ loc[p].order.SeatNo = s

\* goroutine p is inside the critical section of key k: Load to Store
InKeySection(p, k) ==
  pc[p] \in {"idem_load", "idem_store"} /\ loc[p].order.IdempotencyKey = k

\* the entry of map m at x, or "none"
EntryOf(m, x) == IF x \in DOMAIN m THEN <<m[x]>> ELSE <<>>

\* C18: at most one caller is inside the critical section of a seat and at most
\* one inside that of a key, and while a caller stays inside from its check to
\* its write no step changes the entry of its seat or key
C18_CriticalSectionsExclusive ==
  /\ [](\A p, q \in Procs : p # q =>
          /\ ~(InSeatSection(p, loc[p].order.SeatNo) /\ InSeatSection(q, loc[p].order.SeatNo))
          /\ ~( /\ InKeySection(p, loc[p].order.IdempotencyKey)
                /\ InKeySection(q, loc[p].order.IdempotencyKey) ))
  /\ [][ \A p \in Procs :
          LET s == loc[p].order.SeatNo
              k == loc[p].order.IdempotencyKey
          IN /\ (InSeatSection(p, s) /\ InSeatSection(p, s)')
                  => EntryOf(BOOKING_STORE, s)' = EntryOf(BOOKING_STORE, s)
             /\ (InKeySection(p, k) /\ InKeySection(p, k)')
                  => EntryOf(IDEMPOTENCY_STORE, k)' = EntryOf(IDEMPOTENCY_STORE, k)
      ]_vars

C18_Witness ==
  \E p, q \in Procs :
    /\ pc[p] = "reg_write" /\ pc[q] = "reg_lock"
    /\ loc[p].order.SeatNo = loc[q].order.SeatNo
    /\ loc[p].order.IdempotencyKey # loc[q].order.IdempotencyKey

\* goroutine p is inside RegisterBooking on seat t
InRegister(p, t) ==
  pc[p] \in {"reg_lock", "reg_check", "reg_write"} /\ loc[p].order.SeatNo = t

\* goroutine p is inside HandleIdempotency on key j
InIdempotency(p, j) ==
  pc[p] \in {"idem_lock", "idem_load", "idem_store"} /\ loc[p].order.IdempotencyKey = j

SeatLocksHeld(p) == {s \in DOMAIN seatLocks : seatLocks[s] = p}
KeyLocksHeld(p) == {k \in DOMAIN idempotencyLocks : idempotencyLocks[k] = p}

\* C20: no request holds a key lock and a seat lock at once: inside
\* RegisterBooking it holds no key lock, inside HandleIdempotency no seat lock
C20_NeverBothLocks ==
  \A p \in Procs :
    /\ SeatLocksHeld(p) = {} \/ KeyLocksHeld(p) = {}
    /\ pc[p] \in {"reg_lock", "reg_check", "reg_write"} => KeyLocksHeld(p) = {}
    /\ pc[p] \in {"idem_lock", "idem_load", "idem_store"} => SeatLocksHeld(p) = {}

C20_Witness ==
  \E p, q \in Procs :
    /\ loc[p].op = "booking" /\ pc[p] = "reg_write"
    /\ SeatLocksHeld(p) = {loc[p].order.SeatNo}
    /\ idempotencyLocks[loc[p].order.IdempotencyKey] = 0
    /\ loc[q].op = "booking" /\ loc[q].stage = 2 /\ pc[q] = "idem_store"
    /\ KeyLocksHeld(q) = {loc[q].order.IdempotencyKey}
    /\ seatLocks[loc[q].order.SeatNo] = 0

\* the calls that complete in this step
Completing == {e \in BagToSet(log') : log'[e] > (IF e \in DOMAIN log THEN log[e] ELSE 0)}

\* the seats of a snapshot, all tiers together, as a sequence
AllReserved(r) == r["VIP"] \o r["FRONT_ROW"] \o r["GA"]

\* C21: a GetReservedSeats snapshot taken while RegisterBooking calls run
\* reports only seats that hold a record, each at most once, and every seat
\* whose RegisterBooking call had returned success before; it leaves the store as it is
C21_SnapshotDuringRegistration ==
  [][ \A e \in Completing :
        e.op = "reserved" =>
          LET seats == AllReserved(e.reserved) IN
          /\ Elems(seats) \subseteq DOMAIN BOOKING_STORE
          /\ \A i, j \in DOMAIN seats : seats[i] = seats[j] => i = j
          /\ \A w \in Entries :
               (w.op = "register" /\ w.err = "") => w.order.SeatNo \in Elems(seats)
          /\ BOOKING_STORE' = BOOKING_STORE
    ]_vars

\* C22: a BookingRecord, once written, is never removed and never changed in
\* any field by any later step of any operation
C22_RecordsNeverChange ==
  [][ \A s \in DOMAIN BOOKING_STORE :
        s \in DOMAIN BOOKING_STORE' /\ BOOKING_STORE'[s] = BOOKING_STORE[s]
    ]_vars

C22_Witness ==
  /\ AllIdle
  /\ DOMAIN BOOKING_STORE = {1, 2}
  /\ BOOKING_STORE[2].Status = BookingStatusConfirmed
  /\ \E e \in Entries : e.op = "booking" /\ e.code = StatusOK /\ e.order.SeatNo = 1

\* C23: a RegisterBooking call for seat 0 or a seat above TOTAL_SEAT returns
\* "invalid seat number" in its first step, before any synchronisation: it never
\* stays in flight, takes no lock, adds no entry to the seat-lock registry and
\* leaves the seat map as it is
C23_RejectedBeforeLocking ==
  [][ /\ \A p \in Procs :
           (pc[p] = "idle" /\ pc'[p] # "idle") => loc'[p].order.SeatNo \in 1..100
      /\ \A e \in Completing :
           (e.op = "register" /\ e.order.SeatNo \notin 1..100) =>
             /\ e.err = "invalid seat number"
             /\ calls' = calls + 1
             /\ seatLocks' = seatLocks
             /\ BOOKING_STORE' = BOOKING_STORE
             /\ pc' = pc
    ]_vars

C23_Witness ==
  /\ \E e \in Entries : e.order.SeatNo = 101 /\ e.err = "invalid seat number"
  /\ \E e \in Entries : e.order.SeatNo = 0 /\ e.err = "invalid seat number"
  /\ \E p \in Procs : pc[p] = "reg_write" /\ loc[p].order.SeatNo = 100
  /\ DOMAIN seatLocks = {100}
  /\ BOOKING_STORE = EmptyMap

\* C24: a HandleIdempotency call changes the record of its own key only and no
\* record is ever removed; the keys that hold a record are keys passed to
\* HandleIdempotency, among them every key of a completed call, so that after
\* the calls the number of records is the number of distinct keys passed
C24_OneRecordPerKey ==
  /\ [][ \A j \in DOMAIN IDEMPOTENCY_STORE :
          /\ j \in DOMAIN IDEMPOTENCY_STORE'
          /\ IDEMPOTENCY_STORE'[j] # IDEMPOTENCY_STORE[j] =>
               \E p \in Procs : /\ pc[p] = "idem_store" /\ pc'[p] # "idem_store"
                                /\ loc[p].order.IdempotencyKey = j
      ]_vars
  /\ [](LET done == {e.order.IdempotencyKey : e \in {x \in Entries : x.op = "idem"}}
            flying == {loc[p].order.IdempotencyKey : p \in {q \in Procs : pc[q] # "idle"}}
        IN /\ done \subseteq DOMAIN IDEMPOTENCY_STORE
           /\ DOMAIN IDEMPOTENCY_STORE \subseteq done \cup flying
           /\ AllIdle => Cardinality(DOMAIN IDEMPOTENCY_STORE) = Cardinality(done))

C24_Witness ==
  /\ AllIdle
  /\ BagCardinality(log) = 3
  /\ DOMAIN IDEMPOTENCY_STORE = {"k1", "k2"}
  /\ IDEMPOTENCY_STORE["k1"].Status = BookingStatusCanceled
  /\ IDEMPOTENCY_STORE["k2"].Status = BookingStatusPending
  /\ IDEMPOTENCY_STORE["k1"].UserID # IDEMPOTENCY_STORE["k2"].UserID

\* C25: the stores are independent: a step changes the seat map only by
\* completing the insert of a RegisterBooking call, and then only at that
\* call's seat and with the idempotency store left as it is; a step changes the
\* idempotency store only by completing a HandleIdempotency call, and then the
\* seat map, the BookingRecord of the same seat included, is left as it is
C25_StoresIndependent ==
  [][ /\ \A s \in DOMAIN BOOKING_STORE \cup DOMAIN BOOKING_STORE' :
           EntryOf(BOOKING_STORE, s)' # EntryOf(BOOKING_STORE, s) =>
             /\ \E p \in Procs : /\ pc[p] = "reg_write" /\ pc'[p] # "reg_write"
                                  /\ loc[p].order.SeatNo = s
             /\ IDEMPOTENCY_STORE' = IDEMPOTENCY_STORE
      /\ IDEMPOTENCY_STORE' # IDEMPOTENCY_STORE =>
           /\ \E p \in Procs : pc[p] = "idem_store" /\ pc'[p] # "idem_store"
           /\ BOOKING_STORE' = BOOKING_STORE
    ]_vars

C25_Witness ==
  /\ AllIdle
  /\ \E w \in Entries :
       /\ w.op = "register" /\ w.err = "" /\ w.order.SeatNo = 1
       /\ w.booking.Status = BookingStatusPending
  /\ \E e \in Entries :
       /\ e.op = "idem" /\ e.order.Status = BookingStatusPending /\ e.ret = e.order
       /\ e.order.SeatNo = 1
  /\ \E e \in Entries :
       /\ e.op = "idem" /\ e.order.Status = BookingStatusConfirmed
       /\ e.ret.SeatNo = 1 /\ e.ret.Status = BookingStatusConfirmed
  /\ 1 \in DOMAIN BOOKING_STORE /\ BOOKING_STORE[1].Status = BookingStatusPending
  /\ IDEMPOTENCY_STORE["k1"].SeatNo = 1
  /\ IDEMPOTENCY_STORE["k1"].Status = BookingStatusConfirmed

\* the messages that match what is wrong with a request
MatchingMessages(req) ==
  (IF req.UserID = "" THEN {"user_id is required"} ELSE {})
  \cup (IF req.IdempotencyKey = "" THEN {"idempotency_key is required"} ELSE {})
  \cup (IF req.SeatNo = 0 THEN {"seat_no must be greater than 0"} ELSE {})
  \cup (IF req.Tier \notin {"VIP", "FRONT_ROW", "GA"} THEN {"invalid tier"} ELSE {})

\* C26: a HandleBooking request with an empty user id, an empty idempotency
\* key, seat 0 or an unknown tier is answered 400 with a matching message in
\* its first step, with both stores and both lock registries left as they
\* are, and no such request is ever in flight inside a store
C26_InvalidRequestRejected ==
  [][ /\ \A p \in Procs :
           (pc'[p] # "idle" /\ loc'[p].op = "booking") => MatchingMessages(loc'[p].req) = {}
      /\ \A e \in Completing :
           (e.op = "booking" /\ MatchingMessages(e.order) # {}) =>
             /\ e.code = 400
             /\ e.err \in MatchingMessages(e.order)
             /\ e.booking = ZeroBooking
             /\ calls' = calls + 1
             /\ pc' = pc
             /\ UNCHANGED <<BOOKING_STORE, seatLocks, IDEMPOTENCY_STORE, idempotencyLocks>>
    ]_vars

C26_Witness ==
  /\ AllIdle
  /\ \E e \in Entries : e.code = 400 /\ e.err = "invalid tier" /\ e.order.SeatNo = 1
  /\ \E e \in Entries : e.code = 200 /\ e.order.SeatNo = 1
  /\ DOMAIN BOOKING_STORE = {1}
  /\ DOMAIN IDEMPOTENCY_STORE = {"k1"}

\* the HandleBooking requests that carry key k: answered, and in flight
RequestsUnder(k) ==
  NumberOf({e \in Entries : e.op = "booking" /\ e.order.IdempotencyKey = k})
  + Cardinality({p \in Procs : pc[p] # "idle" /\ loc[p].op = "booking"
                                 /\ loc[p].req.IdempotencyKey = k})

\* C27: a HandleBooking request that arrives for a seat holding a booking made
\* under another key, its own key unknown to the idempotency store and used
\* by no other request, is answered 409 "seat already booked"; the record of
\* the seat changes in no step while the request is in flight
C27_TakenSeatConflict ==
  [][ /\ \A p \in Procs :
           (pc[p] # "idle" /\ loc[p].op = "booking" /\ loc[p].taken) =>
             /\ loc[p].req.SeatNo \in DOMAIN BOOKING_STORE'
             /\ BOOKING_STORE'[loc[p].req.SeatNo] = BOOKING_STORE[loc[p].req.SeatNo]
      /\ \A e \in Completing :
           (e.op = "booking" /\ e.taken /\ RequestsUnder(e.order.IdempotencyKey) = 1) =>
             /\ e.code = 409
             /\ e.err = "seat already booked"
             /\ e.booking = ZeroBooking
             /\ BOOKING_STORE'[e.order.SeatNo].IdempotencyKey # e.order.IdempotencyKey
    ]_vars

C27_Witness ==
  /\ AllIdle
  /\ \E e \in Entries : /\ e.op = "booking" /\ e.taken /\ e.code = 409
                        /\ e.order.SeatNo = 1 /\ e.order.IdempotencyKey = "k2"
  /\ \E e \in Entries : /\ e.op = "booking" /\ e.code = 200 /\ e.booking.ID # 0
                        /\ e.order.SeatNo = 1 /\ e.order.IdempotencyKey = "k1"
                        /\ BOOKING_STORE[1] = e.booking

\* the seat range of the i-th tier of the response
RangeOf(i) == IF i = 1 THEN 1..30 ELSE IF i = 2 THEN 31..60 ELSE 61..100

\* C28: in every availability response each tier's AvailableList is strictly
\* ascending (so without duplicates), holds only seats of the tier's range,
\* and holds exactly the seats of the range that the snapshot does not report
\* as reserved for the tier; a snapshot without bookings gives the full ranges
C28_AvailableLists ==
  \A e \in Entries : e.op = "avail" =>
    /\ Len(e.tiers) = 3
    /\ \A i \in 1..3 :
         LET list == e.tiers[i].AvailableList
             snapshot == e.reserved[e.tiers[i].Tier]
         IN /\ \A a, b \in 1..Len(list) : a < b => list[a] < list[b]
            /\ Elems(list) \subseteq RangeOf(i)
            /\ Elems(list) = RangeOf(i) \ Elems(snapshot)
            /\ AllReserved(e.reserved) = <<>> =>
                 /\ Len(list) = Cardinality(RangeOf(i))
                 /\ Elems(list) = RangeOf(i)

C28_Witness ==
  \E e \in Entries :
    /\ e.op = "avail"
    /\ Elems(e.reserved["VIP"]) = {30}
    /\ Len(e.tiers[1].AvailableList) = 29
    /\ e.tiers[1].AvailableList[29] = 29
    /\ Len(e.tiers[2].AvailableList) = 30

\* how often seat s occurs in a list
Occurrences(list, s) == Cardinality({i \in DOMAIN list : list[i] = s})

\* C29: a GetReservedSeats snapshot of a quiescent store whose records all
\* carry a valid tier lists every booked seat exactly once, in the list of
\* the tier of its record and in no other, so that the three lengths sum to
\* the number of records
C29_QuiescentSnapshot ==
  [][ \A e \in Completing :
        ( /\ e.op = "reserved"
          /\ e.quiet
          /\ \A s \in DOMAIN BOOKING_STORE : BOOKING_STORE[s].Tier \in {"VIP", "FRONT_ROW", "GA"} ) =>
          /\ DOMAIN e.reserved = {"VIP", "FRONT_ROW", "GA"}
          /\ \A s \in DOMAIN BOOKING_STORE : \A t \in DOMAIN e.reserved :
               Occurrences(e.reserved[t], s) = IF BOOKING_STORE[s].Tier = t THEN 1 ELSE 0
          /\ \A t \in DOMAIN e.reserved : Elems(e.reserved[t]) \subseteq DOMAIN BOOKING_STORE
          /\ Len(e.reserved["VIP"]) + Len(e.reserved["FRONT_ROW"]) + Len(e.reserved["GA"])
               = Cardinality(DOMAIN BOOKING_STORE)
    ]_vars

C29_Witness ==
  \E e \in Entries :
    /\ e.op = "reserved"
    /\ e.quiet
    /\ e.reserved = [VIP |-> <<31>>, FRONT_ROW |-> <<30>>, GA |-> <<>>]
    /\ DOMAIN BOOKING_STORE = {30, 31}
    /\ BOOKING_STORE[31].Tier = "VIP"

\* a step on the registry entry x of locks that is a Lock() or an Unlock() of
\* goroutine p, which is at one of the places at and inside of its section
LockStep(locks, locksNext, x, p, at, inside) ==
  \/ locks[x] = 0 /\ locksNext[x] = p /\ pc[p] = at
  \/ locks[x] = p /\ locksNext[x] = 0 /\ pc[p] \in inside

\* C30: the registry keeps one lock per seat and one per key: an entry is
\* created unlocked at the first reference, is never removed, and later
\* references leave it as it is, so that it changes only by a Lock() or an
\* Unlock() of a caller of that seat or key; every caller inside
\* RegisterBooking or HandleIdempotency refers to the entry of its seat or
\* key, and inside the critical section is its holder; no step touches both
\* registries
C30_OneLockPerSeatAndKey ==
  /\ [](\A p \in Procs :
          LET s == loc[p].order.SeatNo
              k == loc[p].order.IdempotencyKey
          IN /\ InRegister(p, s) => s \in DOMAIN seatLocks
             /\ InSeatSection(p, s) => seatLocks[s] = p
             /\ InIdempotency(p, k) => k \in DOMAIN idempotencyLocks
             /\ InKeySection(p, k) => idempotencyLocks[k] = p)
  /\ [][ /\ seatLocks' = seatLocks \/ idempotencyLocks' = idempotencyLocks
         /\ \A s \in DOMAIN seatLocks :
              /\ s \in DOMAIN seatLocks'
              /\ seatLocks'[s] # seatLocks[s] =>
                   \E p \in Procs :
                     /\ loc[p].order.SeatNo = s
                     /\ LockStep(seatLocks, seatLocks', s, p, "reg_lock",
                                 {"reg_check", "reg_write"})
         /\ \A s \in DOMAIN seatLocks' \ DOMAIN seatLocks :
              /\ seatLocks'[s] = 0
              /\ \E p \in Procs : pc[p] # "reg_lock" /\ pc'[p] = "reg_lock"
                                   /\ loc'[p].order.SeatNo = s
         /\ \A k \in DOMAIN idempotencyLocks :
              /\ k \in DOMAIN idempotencyLocks'
              /\ idempotencyLocks'[k] # idempotencyLocks[k] =>
                   \E p \in Procs :
                     /\ loc[p].order.IdempotencyKey = k
                     /\ LockStep(idempotencyLocks, idempotencyLocks', k, p, "idem_lock",
                                 {"idem_load", "idem_store"})
         /\ \A k \in DOMAIN idempotencyLocks' \ DOMAIN idempotencyLocks :
              /\ idempotencyLocks'[k] = 0
              /\ \E p \in Procs : pc[p] # "idem_lock" /\ pc'[p] = "idem_lock"
                                   /\ loc'[p].order.IdempotencyKey = k
       ]_vars

\* both callers referenced the seat before either locked it, one took the
\* lock, and the other still waits at the same entry
C30_Witness ==
  \E p, q \in Procs :
    /\ pc[p] = "reg_check" /\ pc[q] = "reg_lock"
    /\ loc[p].order.SeatNo = 1 /\ loc[q].order.SeatNo = 1
    /\ seatLocks[1] = p
    /\ DOMAIN idempotencyLocks = {"k1", "k2"}
    /\ \A k \in DOMAIN idempotencyLocks : idempotencyLocks[k] = 0

\* C31: whenever the idempotency record of key k is CONFIRMED the seat store
\* holds, at the record's seat, a booking made under k with status CONFIRMED,
\* and no HandleBooking request is answered 500
C31_ConfirmedKeyHasBooking ==
  /\ \A k \in DOMAIN IDEMPOTENCY_STORE :
       IDEMPOTENCY_STORE[k].Status = "CONFIRMED" =>
         /\ IDEMPOTENCY_STORE[k].SeatNo \in DOMAIN BOOKING_STORE
         /\ BOOKING_STORE[IDEMPOTENCY_STORE[k].SeatNo].IdempotencyKey = k
         /\ BOOKING_STORE[IDEMPOTENCY_STORE[k].SeatNo].Status = "CONFIRMED"
  /\ \A e \in Entries : e.op = "booking" => e.code # 500

\* the fixed seat range of a tier
SeatsOfTier(tier) ==
  IF tier = "VIP" THEN 1..30
  ELSE IF tier = "FRONT_ROW" THEN 31..60
  ELSE IF tier = "GA" THEN 61..100
  ELSE {}

\* C32: every record in the seat store (all are created through HandleBooking
\* here) has a seat number inside the seat range of its tier
C32_SeatInTierRange ==
  \A s \in DOMAIN BOOKING_STORE : s \in SeatsOfTier(BOOKING_STORE[s].Tier)

\* C33: a HandleBooking request that is the only one under its key and is
\* answered 409 leaves no record of its key in the idempotency store (the
\* store held none before the request)
C33_ErrorLeavesStoreAsBefore ==
  [][ \A e \in Completing :
        ( /\ e.op = "booking"
          /\ e.code = 409
          /\ RequestsUnder(e.order.IdempotencyKey) = 1 ) =>
          e.order.IdempotencyKey \notin DOMAIN IDEMPOTENCY_STORE'
    ]_vars

\* the two answered HandleBooking requests e1, e2 are a double click: the same
\* payload twice, both arrived while the seat held no booking under their key
DoubleClick(e1, e2) ==
  /\ e1.op = "booking" /\ e2.op = "booking"
  /\ e1.order = e2.order
  /\ e1 # e2 \/ log[e1] = 2
  /\ ~e1.pre /\ ~e2.pre

\* C34: when the only two requests are a double click for a free seat, both
\* are answered 200 with the same booking id
C34_DoubleClickBothSucceed ==
  (AllIdle /\ BagCardinality(log) = 2) =>
    \A e1, e2 \in Entries :
      DoubleClick(e1, e2) =>
        /\ e1.code = 200 /\ e2.code = 200
        /\ e1.booking.ID # 0
        /\ e1.booking.ID = e2.booking.ID

\* the seat of the record of key k: the seat of the first request observed with k
SeatOfKey(k) == IDEMPOTENCY_STORE[k].SeatNo

\* C35: the record of a key gets the seat of the request that stores it and
\* keeps it; every RegisterBooking call made for a request under k, every
\* booking held under k and every success response to a request under k has
\* that seat, whatever seat the request names
C35_KeyBoundToFirstSeat ==
  /\ [](/\ \A p \in Procs :
            (loc[p].op = "booking" /\ pc[p] \in {"reg_lock", "reg_check", "reg_write"}) =>
              /\ loc[p].req.IdempotencyKey \in DOMAIN IDEMPOTENCY_STORE
              /\ loc[p].order.SeatNo = SeatOfKey(loc[p].req.IdempotencyKey)
         /\ \A s \in DOMAIN BOOKING_STORE :
              /\ BOOKING_STORE[s].SeatNo = s
              /\ BOOKING_STORE[s].IdempotencyKey \in DOMAIN IDEMPOTENCY_STORE
              /\ SeatOfKey(BOOKING_STORE[s].IdempotencyKey) = s
         /\ \A e \in Entries :
              (e.op = "booking" /\ e.code = 200) =>
                e.booking.SeatNo = SeatOfKey(e.order.IdempotencyKey))
  /\ [][ \A k \in DOMAIN IDEMPOTENCY_STORE' :
           IF k \in DOMAIN IDEMPOTENCY_STORE
           THEN IDEMPOTENCY_STORE'[k].SeatNo = IDEMPOTENCY_STORE[k].SeatNo
           ELSE \E p \in Procs :
                  /\ pc[p] = "idem_store" /\ pc'[p] # "idem_store"
                  /\ loc[p].req.IdempotencyKey = k
                  /\ IDEMPOTENCY_STORE'[k].SeatNo = loc[p].req.SeatNo
      ]_vars

C35_Witness ==
  /\ AllIdle
  /\ DOMAIN BOOKING_STORE = {1}
  /\ \E e \in Entries : /\ e.op = "booking" /\ e.order.IdempotencyKey = "k2"
                        /\ e.order.SeatNo = 1 /\ e.code = 200
  /\ \E e \in Entries : /\ e.op = "booking" /\ e.order.IdempotencyKey = "k2"
                        /\ e.order.SeatNo = 2 /\ e.code = 200
                        /\ e.booking.SeatNo = 1

\* the seats that hold a booking with status CANCELED
CanceledSeats == {s \in DOMAIN BOOKING_STORE : BOOKING_STORE[s].Status = "CANCELED"}

\* C36: a seat that holds a CANCELED booking keeps that record; every
\* RegisterBooking call and HandleBooking request for the seat that completes
\* afterwards fails (but for the response to the request that made the
\* booking, and for a request whose key is bound to another seat, which is
\* answered with the booking of that seat), and every availability
\* response made afterwards reports the seat as reserved and in no AvailableList
C36_CanceledSeatStaysTaken ==
  [][ \A s \in CanceledSeats :
        /\ s \in DOMAIN BOOKING_STORE'
        /\ BOOKING_STORE'[s] = BOOKING_STORE[s]
        /\ \A e \in Completing :
             /\ (e.op = "register" /\ e.order.SeatNo = s) => e.err = "seat already booked"
             /\ (e.op = "booking" /\ e.order.SeatNo = s) =>
                  \/ e.code = 409
                  \/ e.code = 200 /\ e.booking = BOOKING_STORE[s]
                       /\ e.err = "new booking successful"
                  \/ e.code = 200 /\ e.booking.SeatNo # s
             /\ e.op = "avail" =>
                  /\ s \in Elems(AllReserved(e.reserved))
                  /\ \A i \in 1..3 : s \notin Elems(e.tiers[i].AvailableList)
    ]_vars

\* C37: on every store the program reaches, for every order x, a second
\* HandleIdempotency(x) right after the first returns the same record and
\* leaves the store as the first left it, and two orders with the same key
\* and status give the same record and store when the key is stored; every
\* call returns and stores what the uninterrupted function gives on the store
\* it finds, and a call that finds the record a previous call of the same
\* order returned gives that record again and changes nothing
C37_Idempotent ==
  /\ [](\A x \in RepeatOrders :
          LET first == HandleIdempotencyOn(IDEMPOTENCY_STORE, x)
              second == HandleIdempotencyOn(first[2], x)
          IN /\ second = first
             /\ \A y \in RepeatOrders :
                  ( /\ y.IdempotencyKey = x.IdempotencyKey
                    /\ y.Status = x.Status
                    /\ x.IdempotencyKey \in DOMAIN IDEMPOTENCY_STORE ) =>
                    HandleIdempotencyOn(IDEMPOTENCY_STORE, y) = first)
  /\ [][ \A e \in Completing :
           e.op = "idem" =>
             /\ <<e.ret, IDEMPOTENCY_STORE'>> = HandleIdempotencyOn(IDEMPOTENCY_STORE, e.order)
             /\ \A e0 \in Entries :
                  ( /\ e0.op = "idem"
                    /\ e0.order = e.order
                    /\ e.order.IdempotencyKey \in DOMAIN IDEMPOTENCY_STORE
                    /\ IDEMPOTENCY_STORE[e.order.IdempotencyKey] = e0.ret ) =>
                    e.ret = e0.ret /\ IDEMPOTENCY_STORE' = IDEMPOTENCY_STORE
      ]_vars

\* the same CONFIRMED order of u2 was handled twice on a record made by u1:
\* both calls returned u1's record with the status CONFIRMED
C37_Witness ==
  /\ AllIdle
  /\ \E e \in Entries :
       /\ e.op = "idem" /\ log[e] = 2
       /\ e.order.UserID = "u2" /\ e.order.Status = BookingStatusConfirmed
       /\ e.ret.UserID = "u1" /\ e.ret.Status = BookingStatusConfirmed
       /\ IDEMPOTENCY_STORE["k1"] = e.ret

\* the per-seat price in cents of the version with a quantity
PricePerSeat(tier) ==
  IF tier = "VIP" THEN 50000 ELSE IF tier = "FRONT_ROW" THEN 20000 ELSE 10000

\* C38: CalculateAmount(tier, quantity) is the tier's per-seat price times
\* the quantity, for every quantity from 1 to 65535 (stated by division: the
\* amount is a multiple of the quantity and their quotient is the price)
C38_AmountIsPriceTimesQuantity ==
  \A e \in Entries :
    (e.op = "amount" /\ e.quantity >= 1 /\ e.quantity <= 65535) =>
      /\ e.amount % e.quantity = 0
      /\ e.amount \div e.quantity = PricePerSeat(e.order.Tier)

====
